---- MODULE Spec2Model ----
(***************************************************************************)
(* jamz: renaming audio files from their tags (`rename`) and moving them   *)
(* into an artist/album library (`add`).                                   *)
(*                                                                         *)
(* Text is a sequence of one-character strings.  A tag value is a record   *)
(* [t, v]: a scalar string, a scalar integer, or an ordered sequence of    *)
(* scalars (the shapes the tag reader hands over).                         *)
(***************************************************************************)
EXTENDS Integers, Sequences, FiniteSets, TLC

VARIABLES
    command,        \* args.command: "rename" or "add"; the function's name for a single call
    dry_run,        \* args.dry_run
    ignore_errors,  \* args.ignore_errors
    verbose,        \* args.verbose
    template,       \* args.template, as a sequence of literal/placeholder pieces
    posix,          \* whether os.rename replaces an existing file (Unix) or raises (Windows)
    contents,       \* what the tag reader finds in each file content (fixed for a run)
    files,          \* the pre-collected list of paths (names in the directory)
    disk,           \* the directory: name -> index of the content stored under it
    idx,            \* position of the `for file in files` loop
    rename_table,   \* rename(): rows collected so far
    printed,        \* the table the run printed (done is FALSE until it prints)
    calls,          \* the os.rename / shutil.move invocations made so far
    diag,           \* console diagnostics (skips, warnings)
    movement_table, \* add(): path -> target directory
    made,           \* directories os.makedirs was invoked for
    library,        \* paths present under the target directory
    library0,       \* what the library held when the run started
    pc,             \* where the run is
    fin,            \* argument of a function call under study
    fout            \* its result

\* what a run never assigns: the arguments and the snapshot it started from
args == <<command, dry_run, ignore_errors, verbose, template, posix, contents,
          files, library0>>

vars == <<args, disk, idx, rename_table, printed, calls, diag,
          movement_table, made, library, pc, fin, fout>>

(***************************************************************************)
(* Bounds                                                                  *)
(***************************************************************************)
MaxFiles == 3
MaxStrLen == 3
MaxSegLen == 2
MaxTrackLen == 3

(***************************************************************************)
(* Text                                                                    *)
(***************************************************************************)
SeqsUpTo(S, n) == UNION {[1..k -> S] : k \in 0..n}

\* position of the first occurrence of c in s, 0 when there is none
RECURSIVE IndexFrom(_, _, _)
IndexFrom(s, c, i) ==
    IF i > Len(s) THEN 0
    ELSE IF s[i] = c THEN i
    ELSE IndexFrom(s, c, i + 1)

\* position of the last occurrence of c in s, 0 when there is none
RECURSIVE RIndexFrom(_, _, _)
RIndexFrom(s, c, i) ==
    IF i < 1 THEN 0
    ELSE IF s[i] = c THEN i
    ELSE RIndexFrom(s, c, i - 1)

Digit(d) == CASE d = 0 -> "0" [] d = 1 -> "1" [] d = 2 -> "2" [] d = 3 -> "3"
              [] d = 4 -> "4" [] d = 5 -> "5" [] d = 6 -> "6" [] d = 7 -> "7"
              [] d = 8 -> "8" [] d = 9 -> "9"

\* str(n) for an integer n >= 0
RECURSIVE IntToStr(_)
IntToStr(n) == IF n < 10 THEN <<Digit(n)>>
               ELSE IntToStr(n \div 10) \o <<Digit(n % 10)>>

\* s.split("/")[0]
BeforeSlash(s) ==
    LET i == IndexFrom(s, "/", 1)
    IN  IF i = 0 THEN s ELSE SubSeq(s, 1, i - 1)

\* s.zfill(width): zeros go after a leading sign
zfill(s, width) ==
    IF Len(s) >= width THEN s
    ELSE LET zeros == [i \in 1..(width - Len(s)) |-> "0"]
         IN  IF Len(s) > 0 /\ s[1] \in {"+", "-"}
             THEN <<s[1]>> \o zeros \o Tail(s)
             ELSE zeros \o s

\* s.rstrip(cs)
RECURSIVE rstrip(_, _)
rstrip(s, cs) ==
    IF s = <<>> THEN s
    ELSE IF s[Len(s)] \in cs THEN rstrip(SubSeq(s, 1, Len(s) - 1), cs)
    ELSE s

(***************************************************************************)
(* sanitize                                                                *)
(***************************************************************************)
chars_to_replace == {"/", "\\", ":", "*", "?", "\"", "<", ">", "|"}

re_sub_NoBackslash(s) ==
    [i \in 1..Len(s) |-> IF s[i] \in (chars_to_replace \ {"\\"}) THEN "_" ELSE s[i]]

\* re.sub(chars_to_replace, '_', s)
re_sub(s) == [i \in 1..Len(s) |-> IF s[i] \in chars_to_replace THEN "_" ELSE s[i]]

sanitize_StripOnce(s) ==
    LET r == re_sub(s)
    IN  IF r # <<>> /\ r[Len(r)] \in {" ", "."} THEN SubSeq(r, 1, Len(r) - 1) ELSE r

sanitize(s) == rstrip(re_sub(s), {" ", "."})

(***************************************************************************)
(* Tag values                                                              *)
(***************************************************************************)
StrV(s) == [t |-> "str", v |-> s]
IntV(n) == [t |-> "int", v |-> n]
ListV(l) == [t |-> "list", v |-> l]

\* the outcome of a computation: a value, or the exception it raised
Ok(x) == [ok |-> TRUE, val |-> x]
Raise(e) == [ok |-> FALSE, val |-> e]

\* value[0]
Index0(value) ==
    IF value.t = "int" THEN Raise("TypeError")
    ELSE IF Len(value.v) = 0 THEN Raise("IndexError")
    ELSE IF value.t = "str" THEN Ok(StrV(<<value.v[1]>>))
    ELSE Ok(value.v[1])

\* try: value = value[0]  except TypeError: pass
FirstOrSelf(value) ==
    LET r == Index0(value)
    IN  IF r.ok THEN r
        ELSE IF r.val = "TypeError" THEN Ok(value)
        ELSE r

\* str(x) of a scalar
ToStr(x) == IF x.t = "int" THEN IntToStr(x.v) ELSE x.v

\* first_tags: the loop over file.tags.items()
FirstTags(tags) ==
    IF \E k \in DOMAIN tags : ~FirstOrSelf(tags[k]).ok
    THEN Raise("IndexError")
    ELSE Ok([k \in DOMAIN tags |-> FirstOrSelf(tags[k]).val])

\* the text handed to len() and zfill(), or the exception len() raises
TrackNumber(first_tags) ==
    IF "TRCK" \in DOMAIN first_tags
    THEN Ok(BeforeSlash(ToStr(first_tags["TRCK"])))
    ELSE IF "tracknumber" \in DOMAIN first_tags
    THEN IF first_tags["tracknumber"].t = "int"
         THEN Raise("TypeError")
         ELSE Ok(first_tags["tracknumber"].v)
    ELSE Ok(<<>>)

\* f with key k set to value x
With(f, k, x) == [j \in (DOMAIN f) \cup {k} |-> IF j = k THEN x ELSE f[j]]

\* process_file, up to the template: the tag set the template is applied to
NormalizedTags(tags, suffix) ==
    LET ft == FirstTags(tags)
    IN  IF ~ft.ok THEN ft
        ELSE LET tn == TrackNumber(ft.val)
             IN  IF ~tn.ok THEN tn
                 ELSE LET padded == IF Len(tn.val) > 0
                                    THEN With(ft.val, "jamz_padded_tracknumber",
                                              StrV(zfill(tn.val, 2)))
                                    ELSE ft.val
                      IN  Ok(With(padded, "jamz_original_suffix", StrV(suffix)))

\* Path(name).suffix
Suffix(name) ==
    LET i == RIndexFrom(name, ".", Len(name))
    IN  IF 1 < i /\ i < Len(name) THEN SubSeq(name, i, Len(name)) ELSE <<>>

(***************************************************************************)
(* Templates: a sequence of pieces, each a literal text, a {key}           *)
(* placeholder, or a malformed placeholder (an unmatched brace).           *)
(***************************************************************************)
Lit(s) == [p |-> "lit", key |-> "", text |-> s]
Key(k) == [p |-> "key", key |-> k, text |-> <<>>]
Bad == [p |-> "bad", key |-> "", text |-> <<>>]

\* template.format(**first_tags): the pieces are substituted left to right,
\* the first one that cannot be raises
RECURSIVE Format(_, _)
Format(tpl, tags) ==
    IF tpl = <<>> THEN Ok(<<>>)
    ELSE LET piece == Head(tpl)
         IN  IF piece.p = "bad" THEN Raise("ValueError")
             ELSE IF piece.p = "key" /\ piece.key \notin DOMAIN tags THEN Raise("KeyError")
             ELSE LET rest == Format(Tail(tpl), tags)
                  IN  IF ~rest.ok THEN rest
                      ELSE Ok((IF piece.p = "lit" THEN piece.text ELSE ToStr(tags[piece.key]))
                              \o rest.val)

(***************************************************************************)
(* The filesystem.  The source directory is flat: `disk` maps each name in *)
(* it to the index (into `contents`) of what is stored there.  A path of   *)
(* the library is a sequence of segments.                                  *)
(***************************************************************************)
Letter(i) == CASE i = 1 -> "a" [] i = 2 -> "b" [] i = 3 -> "c" [] i = 4 -> "d"
               [] OTHER -> "e"

\* the name of the i-th directory entry: a.m, b.m, ...
FileName(i) == <<Letter(i), ".", "m">>

Range(f) == {f[x] : x \in DOMAIN f}

\* f without key k
Without(f, k) == [j \in (DOMAIN f) \ {k} |-> f[j]]

\* os.rename(path, path.parent / new_name) in directory d holding contents cs.
\* A name that is empty, `.` or `..` denotes a directory; one holding a
\* separator lies under a subdirectory the flat directory does not have.
OsRename(d, cs, src, new_name, unix) ==
    IF new_name \in {<<>>, <<".">>, <<".", ".">>} THEN Raise("OSError")
    ELSE IF IndexFrom(new_name, "/", 1) # 0 THEN Raise("FileNotFoundError")
    ELSE IF new_name = src THEN Ok(d)
    ELSE IF new_name \in DOMAIN d
    THEN IF cs[d[new_name]].kind = "dir" THEN Raise("IsADirectoryError")
         ELSE IF unix THEN Ok(With(Without(d, src), new_name, d[src]))
         ELSE Raise("FileExistsError")
    ELSE Ok(With(Without(d, src), new_name, d[src]))

Mutates_Always(dry) == TRUE

\* `if not dry_run:` guards every mutation
Mutates(dry) == ~dry

Reraises_Never(ign) == FALSE

\* `if not ignore_errors: raise (e)`
Reraises(ign) == ~ign

(***************************************************************************)
(* process_file(location, template, dry_run, verbose, ignore_errors)       *)
(* The outcome: what it returns or raises, and the directory, invocation   *)
(* log and diagnostics it leaves.                                          *)
(***************************************************************************)
Outcome(how, row, d, cl, dg) ==
    [how |-> how, row |-> row, disk |-> d, calls |-> cl, diag |-> dg]

NoRow == [old |-> <<>>, new |-> <<>>]

process_file(location) ==
    LET c == disk[location]
        file == contents[c]
        say(m) == IF verbose THEN diag \cup {[msg |-> m, file |-> location]} ELSE diag
    IN  IF file.kind = "dir" THEN Outcome("none", NoRow, disk, calls, diag)
        ELSE IF file.kind = "notags"
        THEN Outcome("none", NoRow, disk, calls, say("no identifiable tags"))
        ELSE
        LET first_tags == NormalizedTags(file.tags, Suffix(location))
        IN  IF ~first_tags.ok THEN Outcome("crash", NoRow, disk, calls, diag)
            ELSE
            LET new_name == Format(template, first_tags.val)
            IN  IF ~new_name.ok
                THEN IF Reraises(ignore_errors)
                     THEN Outcome("raise", NoRow, disk, calls, diag)
                     ELSE Outcome("none", NoRow, disk, calls,
                                  say("error applying template"))
                ELSE
                LET row == [old |-> location, new |-> new_name.val]
                IN  IF Mutates(dry_run)
                    THEN LET r == OsRename(disk, contents, location, new_name.val, posix)
                             cl == Append(calls, [op |-> "rename", src |-> location,
                                                  dst |-> new_name.val, content |-> c,
                                                  done |-> r.ok])
                         IN  IF r.ok THEN Outcome("row", row, r.val, cl, diag)
                             ELSE Outcome("crash", NoRow, disk, cl, diag)
                    ELSE Outcome("row", row, disk, calls, diag)

(***************************************************************************)
(* rename(args)                                                            *)
(***************************************************************************)
\* one pass of `for file in files:`
RenameFile ==
    /\ command = "rename"
    /\ pc = "loop"
    /\ idx <= Len(files)
    /\ LET result == process_file(files[idx])
       IN  /\ disk' = result.disk
           /\ calls' = result.calls
           /\ diag' = result.diag
           /\ rename_table' = IF result.how = "row"
                              THEN Append(rename_table, result.row)
                              ELSE rename_table
           /\ pc' = CASE result.how = "raise" -> "aborted"
                      [] result.how = "crash" -> "crashed"
                      [] OTHER -> "loop"
           /\ idx' = IF result.how \in {"raise", "crash"} THEN idx ELSE idx + 1
    /\ UNCHANGED <<args, printed, movement_table, made, library,
                   fin, fout>>

\* the banner and tabulate(rename_table) after the loop
RenamePrint ==
    /\ command = "rename"
    /\ pc = "loop"
    /\ idx > Len(files)
    /\ printed' = [done |-> TRUE, rows |-> rename_table]
    /\ pc' = "done"
    /\ UNCHANGED <<args, disk, idx, rename_table, calls, diag,
                   movement_table, made, library, fin, fout>>

(***************************************************************************)
(* add(args)                                                               *)
(***************************************************************************)
target_directory == << <<"L">> >>

\* PurePath / segment: the segment's parts are appended, empty and `.` parts
\* dropped; an absolute segment replaces the path
RECURSIVE Split(_)
Split(s) ==
    LET i == IndexFrom(s, "/", 1)
    IN  IF i = 0 THEN <<s>>
        ELSE <<SubSeq(s, 1, i - 1)>> \o Split(SubSeq(s, i + 1, Len(s)))

Parts(s) == SelectSeq(Split(s), LAMBDA x : x \notin {<<>>, <<".">>})

JoinPath(path, s) ==
    IF s # <<>> /\ s[1] = "/" THEN << <<"/">> >> \o Parts(s)
    ELSE path \o Parts(s)

\* tags[a][0] if a in tags, else tags[b][0] if b in tags, else nothing
Lookup(tags, a, b) ==
    IF a \in DOMAIN tags THEN Index0(tags[a])
    ELSE IF b \in DOMAIN tags THEN Index0(tags[b])
    ELSE Raise("missing")

\* sanitize() applied to what the lookup found: re.sub raises on a non-string
SanitizeValue(x) == IF x.t = "str" THEN Ok(sanitize(x.v)) ELSE Raise("TypeError")

\* target_directory / sanitize(artist) / sanitize(album)
NewPath(root, artist, album) == JoinPath(JoinPath(root, artist), album)

\* one pass of the first `for file in files:` (collecting movement_table)
AddCollect ==
    /\ command = "add"
    /\ pc = "loop"
    /\ idx <= Len(files)
    /\ LET path == files[idx]
           file == contents[disk[path]]
           artist == Lookup(file.tags, "artist", "TPE1")
           album == Lookup(file.tags, "album", "TALB")
           warn(m) == diag \cup {[msg |-> m, file |-> path]}
           skip(dg) == /\ diag' = dg
                       /\ idx' = idx + 1
                       /\ UNCHANGED <<movement_table, pc>>
           crash == /\ pc' = "crashed"
                    /\ UNCHANGED <<movement_table, diag, idx>>
       IN  IF file.kind # "tagged" THEN skip(diag)
           ELSE IF ~artist.ok
           THEN IF artist.val = "missing" THEN skip(warn("Failed to find artist"))
                ELSE crash
           ELSE IF ~album.ok
           THEN IF album.val = "missing" THEN skip(warn("Failed to find album"))
                ELSE crash
           ELSE IF ~SanitizeValue(artist.val).ok \/ ~SanitizeValue(album.val).ok
           THEN crash
           ELSE /\ movement_table' =
                       Append(movement_table,
                              [old |-> path,
                               new |-> NewPath(target_directory,
                                               SanitizeValue(artist.val).val,
                                               SanitizeValue(album.val).val)])
                /\ idx' = idx + 1
                /\ UNCHANGED <<diag, pc>>
    /\ UNCHANGED <<args, disk, rename_table, printed, calls, made,
                   library, fin, fout>>

\* after the loop: the dry-run listing, or on to the moves
AddAfterLoop ==
    /\ command = "add"
    /\ pc = "loop"
    /\ idx > Len(files)
    /\ IF Mutates(dry_run)
       THEN /\ pc' = IF movement_table = <<>> THEN "done" ELSE "moving"
            /\ idx' = 1
            /\ UNCHANGED printed
       ELSE /\ printed' = [done |-> TRUE, rows |-> movement_table]
            /\ pc' = "done"
            /\ UNCHANGED idx
    /\ UNCHANGED <<args, disk, rename_table, calls, diag,
                   movement_table, made, library, fin, fout>>

IsPrefix(p, q) == Len(p) <= Len(q) /\ SubSeq(q, 1, Len(p)) = p

\* one pass of `for old, new in movement_table.items():`
\* os.makedirs(new, exist_ok=True) raises when a file lies on the way;
\* shutil.move(old, new) raises when new/<name of old> already exists
AddMove ==
    /\ command = "add"
    /\ pc = "moving"
    /\ idx <= Len(movement_table)
    /\ LET old == movement_table[idx].old
           new == movement_table[idx].new
           dst == Append(new, old)
       IN  IF \E f \in library : IsPrefix(f, new)
           THEN /\ pc' = "crashed"
                /\ UNCHANGED <<made, calls, disk, library, idx>>
           ELSE /\ made' = made \cup {new}
                /\ calls' = Append(calls, [op |-> "move", src |-> old, dst |-> new,
                                           content |-> disk[old],
                                           done |-> dst \notin library])
                /\ IF dst \in library
                   THEN /\ pc' = "crashed"
                        /\ UNCHANGED <<disk, library, idx>>
                   ELSE /\ disk' = Without(disk, old)
                        /\ library' = library \cup {dst}
                        /\ idx' = idx + 1
                        /\ pc' = IF idx = Len(movement_table) THEN "done" ELSE "moving"
    /\ UNCHANGED <<args, rename_table, printed, diag, movement_table,
                   fin, fout>>

(***************************************************************************)
(* Runs: the directory contents, templates and options a run starts from   *)
(***************************************************************************)
NoTags == [k \in {} |-> StrV(<<>>)]

Directory == [kind |-> "dir", tags |-> NoTags]
Untagged == [kind |-> "notags", tags |-> NoTags]
Tagged(tags) == [kind |-> "tagged", tags |-> tags]

\* title b (-> b.m, the second entry's name), artist "A/C", album "L.", TRCK 3/12
SongB == Tagged([k \in {"title", "artist", "album", "TRCK"} |->
                   CASE k = "title" -> ListV(<<StrV(<<"b">>)>>)
                     [] k = "artist" -> ListV(<<StrV(<<"A", "/", "C">>)>>)
                     [] k = "album" -> ListV(<<StrV(<<"L", ".">>)>>)
                     [] k = "TRCK" -> ListV(<<StrV(<<"3", "/", "1", "2">>)>>)])

\* title z, ID3 keys only, tracknumber 7
SongZ == Tagged([k \in {"title", "TPE1", "TALB", "tracknumber"} |->
                   CASE k = "title" -> ListV(<<StrV(<<"z">>)>>)
                     [] k = "TPE1" -> ListV(<<StrV(<<"Q">>), StrV(<<"R">>)>>)
                     [] k = "TALB" -> ListV(<<StrV(<<"M">>)>>)
                     [] k = "tracknumber" -> ListV(<<StrV(<<"7">>)>>)])

\* neither title nor album
ArtistOnly == Tagged([k \in {"artist"} |-> ListV(<<StrV(<<"Q">>)>>)])

\* a tag present with no values
EmptyValued == Tagged([k \in {"title", "artist", "album"} |->
                   CASE k = "title" -> ListV(<<StrV(<<"y">>)>>)
                     [] k = "artist" -> ListV(<<>>)
                     [] k = "album" -> ListV(<<StrV(<<"M">>)>>)])

\* single (not sequence) values
Scalars == Tagged([k \in {"title", "artist", "album", "tracknumber"} |->
                   CASE k = "title" -> StrV(<<"x", "y">>)
                     [] k = "artist" -> StrV(<<"Q", "u">>)
                     [] k = "album" -> StrV(<<"M">>)
                     [] k = "tracknumber" -> ListV(<<StrV(<<"3", "/", "9">>)>>)])

FileKinds == {Directory, Untagged, SongB, SongZ, ArtistOnly, EmptyValued, Scalars}

\* "{title}{jamz_original_suffix}", "{jamz_padded_tracknumber}-{title}", "{title"
Templates == { <<Key("title"), Key("jamz_original_suffix")>>,
               <<Key("jamz_padded_tracknumber"), Lit(<<"-">>), Key("title")>>,
               <<Bad, Key("title")>> }

\* what the library holds before the run: nothing, or L/Q/M/a.m
Libraries == { {}, { << <<"L">>, <<"Q">>, <<"M">>, FileName(1) >> } }

NoPrint == [done |-> FALSE, rows |-> <<>>]

DiskOf(n) == [name \in {FileName(i) : i \in 1..n} |->
                CHOOSE i \in 1..n : FileName(i) = name]

\* main(): the parsed arguments and the listing of the directory
Init ==
    /\ command \in {"rename", "add"}
    /\ dry_run \in BOOLEAN
    /\ ignore_errors \in IF command = "rename" THEN BOOLEAN ELSE {FALSE}
    /\ verbose \in IF command = "rename" THEN BOOLEAN ELSE {FALSE}
    /\ posix \in IF command = "rename" THEN BOOLEAN ELSE {TRUE}
    /\ template \in IF command = "rename" THEN Templates ELSE {<<>>}
    /\ library \in IF command = "add" THEN Libraries ELSE {{}}
    /\ library0 = library
    /\ \E n \in 0..MaxFiles :
          /\ contents \in [1..n -> FileKinds]
          /\ files = [i \in 1..n |-> FileName(i)]
          /\ disk = DiskOf(n)
    /\ idx = 1
    /\ rename_table = <<>>
    /\ movement_table = <<>>
    /\ printed = NoPrint
    /\ calls = <<>>
    /\ diag = {}
    /\ made = {}
    /\ pc = "loop"
    /\ fin = <<>>
    /\ fout = <<>>

Next == RenameFile \/ RenamePrint \/ AddCollect \/ AddAfterLoop \/ AddMove

Spec == Init /\ [][Next]_vars

(***************************************************************************)
(* Single calls: sanitize(s), the path `add` derives, and the tag set      *)
(* process_file builds, each over every argument within the bounds         *)
(***************************************************************************)
\* everything of a run, idle
NoRun ==
    /\ dry_run = FALSE
    /\ ignore_errors = FALSE
    /\ verbose = FALSE
    /\ posix = TRUE
    /\ template = <<>>
    /\ contents = <<>>
    /\ files = <<>>
    /\ disk = <<>>
    /\ library = {}
    /\ library0 = {}
    /\ idx = 1
    /\ rename_table = <<>>
    /\ movement_table = <<>>
    /\ printed = NoPrint
    /\ calls = <<>>
    /\ diag = {}
    /\ made = {}

Returns(result) ==
    /\ pc = "call"
    /\ fout' = result
    /\ pc' = "ret"
    /\ UNCHANGED <<args, disk, idx, rename_table, printed, calls, diag,
                   movement_table, made, library, fin>>

\* the nine replaced characters, the two stripped ones, and two others
SanitizeChars == chars_to_replace \cup {" ", ".", "a", "_"}

InitSanitize ==
    /\ command = "sanitize"
    /\ fin \in SeqsUpTo(SanitizeChars, MaxStrLen)
    /\ fout = <<>>
    /\ pc = "call"
    /\ NoRun

SanitizeCall == command = "sanitize" /\ Returns(sanitize(fin))

SpecSanitize == InitSanitize /\ [][SanitizeCall]_vars

SegmentChars == {"a", "/", "\\", ".", " "}

InitDerive ==
    /\ command = "derive"
    /\ fin \in [artist : SeqsUpTo(SegmentChars, MaxSegLen),
                album : SeqsUpTo(SegmentChars, MaxSegLen)]
    /\ fout = <<>>
    /\ pc = "call"
    /\ NoRun

DeriveCall ==
    /\ command = "derive"
    /\ Returns(NewPath(target_directory, sanitize(fin.artist), sanitize(fin.album)))

SpecDerive == InitDerive /\ [][DeriveCall]_vars

TrackChars == {"1", "2", "/"}

TrackScalars == {StrV(s) : s \in SeqsUpTo(TrackChars, MaxTrackLen)}
                    \cup {IntV(n) : n \in {2, 12, 112}}

\* a scalar, or a sequence of none, one or two scalars
TrackValues == TrackScalars \cup {ListV(<<>>)}
                   \cup {ListV(<<x>>) : x \in TrackScalars}
                   \cup {ListV(<<x, StrV(<<"9">>)>>) : x \in TrackScalars}

\* a few values for the second key, when both are present
OtherValues == {ListV(<<StrV(<<"1", "2">>)>>), ListV(<<StrV(<<>>)>>),
                StrV(<<"2">>), IntV(2), ListV(<<>>)}

TrackTagSets ==
    UNION { [D -> TrackValues] : D \in {{}, {"TRCK"}, {"tracknumber"}} }
    \cup { [k \in {"TRCK", "tracknumber"} |-> IF k = "TRCK" THEN x ELSE y] :
             x \in TrackValues, y \in OtherValues }
    \cup { [k \in {"TRCK", "tracknumber"} |-> IF k = "TRCK" THEN y ELSE x] :
             x \in TrackValues, y \in OtherValues }

InitNormalize ==
    /\ command = "normalize"
    /\ fin \in TrackTagSets
    /\ fout = <<>>
    /\ pc = "call"
    /\ NoRun

NormalizeCall ==
    /\ command = "normalize"
    /\ Returns([first_tags |-> FirstTags(fin),
                 tags |-> NormalizedTags(fin, <<".", "m">>)])

SpecNormalize == InitNormalize /\ [][NormalizeCall]_vars

(***************************************************************************)
(* Properties of sanitize and of the derived directory                     *)
(***************************************************************************)
NineChars == {"/", "\\", ":", "*", "?", "\"", "<", ">", "|"}

\* r is s with the nine characters replaced and the trailing run of spaces
\* and periods cut off
ReplacedAndStripped(s, r) ==
    \E k \in 0..Len(s) :
        /\ Len(r) = k
        /\ \A i \in 1..k : r[i] = IF s[i] \in NineChars THEN "_" ELSE s[i]
        /\ \A i \in (k + 1)..Len(s) : s[i] \in {" ", "."}
        /\ k > 0 => s[k] \notin {" ", "."}

\* C7: for every string, sanitize returns the input with each of the nine
\* characters / \ : * ? " < > | replaced by _ and all trailing spaces and
\* periods removed; the result holds none of the nine characters and does
\* not end with a space or a period.
C7_SanitizeReplacesAndStrips ==
    (command = "sanitize" /\ pc = "ret") =>
        /\ ReplacedAndStripped(fin, fout)
        /\ \A i \in 1..Len(fout) : fout[i] \notin NineChars
        /\ fout # <<>> => fout[Len(fout)] \notin {" ", "."}

\* sanitize("/. ") = "_": a replaced character and a stripped tail
C7_Witness ==
    /\ command = "sanitize"
    /\ pc = "ret"
    /\ fin = <<"/", ".", " ">>
    /\ fout = <<"_">>

OnlySpacesAndPeriods(s) == \A i \in 1..Len(s) : s[i] \in {" ", "."}

\* C10: the directory derived from any artist and album stays under the
\* target root: every segment below the root is non-empty, holds no path
\* separator and is neither . nor .., and there is one level for each of
\* artist and album that is not made only of spaces and periods (so at
\* most two).
C10_DerivedDirectoryUnderRoot ==
    (command = "derive" /\ pc = "ret") =>
        /\ IsPrefix(target_directory, fout)
        /\ Len(fout) <= Len(target_directory) + 2
        /\ \A j \in (Len(target_directory) + 1)..Len(fout) :
              /\ fout[j] \notin {<<>>, <<".">>, <<".", ".">>}
              /\ \A i \in 1..Len(fout[j]) : fout[j][i] \notin {"/", "\\"}
        /\ Len(fout) = Len(target_directory)
                         + (IF OnlySpacesAndPeriods(fin.artist) THEN 0 ELSE 1)
                         + (IF OnlySpacesAndPeriods(fin.album) THEN 0 ELSE 1)

\* artist ".." contributes no level, album "/a" becomes the segment "_a"
C10_Witness ==
    /\ command = "derive"
    /\ pc = "ret"
    /\ fin.artist = <<".", ".">>
    /\ fin.album = <<"/", "a">>
    /\ fout = <<<<"L">>, <<"_", "a">>>>

(***************************************************************************)
(* Properties of tag normalisation                                         *)
(***************************************************************************)
\* what the data model calls the value of a tag: the first element of a
\* sequence, a single value itself
FirstValue(x) == IF x.t = "list" THEN x.v[1] ELSE x

IsSequenceOfText(x) == x.t = "list" /\ x.v # <<>> /\ x.v[1].t = "str"

\* s left-padded with 0 to a length of at least 2
LeftPad2(s) == IF Len(s) >= 2 THEN s ELSE [i \in 1..(2 - Len(s)) |-> "0"] \o s

TextBeforeSlash(s) ==
    IF \E i \in 1..Len(s) : s[i] = "/"
    THEN SubSeq(s, 1, (CHOOSE i \in 1..Len(s) :
                          s[i] = "/" /\ \A j \in 1..(i - 1) : s[j] # "/") - 1)
    ELSE s

\* C5: with the track source TRCK if present and tracknumber otherwise, the
\* padded-tracknumber key is absent when there is no track key or the chosen
\* value is empty, and otherwise is the chosen value's text before its first
\* "/" left-padded with 0 to length 2, whichever key supplied it.  Stated
\* here for tag sets whose values are non-empty sequences of strings and
\* whose chosen text does not start with "/".
C5_PaddedTrackNumber ==
    (command = "normalize" /\ pc = "ret"
       /\ \A k \in DOMAIN fin : IsSequenceOfText(fin[k])) =>
        LET keys == DOMAIN fin
            chosen == IF "TRCK" \in keys THEN fin["TRCK"].v[1].v
                      ELSE IF "tracknumber" \in keys THEN fin["tracknumber"].v[1].v
                      ELSE <<>>
        IN  (chosen = <<>> \/ chosen[1] # "/") =>
              /\ fout.tags.ok
              /\ IF chosen = <<>>
                 THEN "jamz_padded_tracknumber" \notin DOMAIN fout.tags.val
                 ELSE /\ "jamz_padded_tracknumber" \in DOMAIN fout.tags.val
                      /\ fout.tags.val["jamz_padded_tracknumber"]
                            = StrV(LeftPad2(TextBeforeSlash(chosen)))

\* C6: normalisation completes for every raw tag set and maps each key to
\* the first element of a sequence value and to the unchanged value
\* otherwise, so that no normalised value is a sequence.
C6_NormalizedValuesAreScalars ==
    (command = "normalize" /\ pc = "ret") =>
        /\ fout.first_tags.ok
        /\ \A k \in DOMAIN fin :
              /\ fout.first_tags.val[k].t # "list"
              /\ fout.first_tags.val[k] = FirstValue(fin[k])

(***************************************************************************)
(* Properties of the runs                                                  *)
(***************************************************************************)
HasTags(i) == contents[i].kind = "tagged"

\* the name the template gives the i-th entry of the directory as listed
NewName(i) ==
    LET nt == NormalizedTags(contents[i].tags, Suffix(FileName(i)))
    IN  IF nt.ok THEN Format(template, nt.val) ELSE nt

Resolves(i) == HasTags(i) /\ NewName(i).ok

\* one (old name, new name) pair per listed entry that has tags and whose
\* template resolves, in list order
RECURSIVE PairsUpTo(_)
PairsUpTo(n) ==
    IF n = 0 THEN <<>>
    ELSE IF Resolves(n)
    THEN Append(PairsUpTo(n - 1), [old |-> FileName(n), new |-> NewName(n).val])
    ELSE PairsUpTo(n - 1)

DryRunLeavesFilesystem ==
    dry_run => /\ disk = DiskOf(Len(files))
               /\ library = library0
               /\ calls = <<>>
               /\ made = {}

TemplateFails(name) ==
    /\ name \in DOMAIN disk
    /\ contents[disk[name]].kind = "tagged"
    /\ LET nt == NormalizedTags(contents[disk[name]].tags, Suffix(name))
       IN  nt.ok /\ ~Format(template, nt.val).ok

\* the directory after the logged renames, applied to the listing
RECURSIVE Replay(_)
Replay(n) ==
    IF n = 0 THEN DiskOf(Len(files))
    ELSE LET d == Replay(n - 1)
             c == calls[n]
         IN  IF c.src = c.dst THEN d
             ELSE [name \in ((DOMAIN d) \ {c.src}) \cup {c.dst} |->
                      IF name = c.dst THEN d[c.src] ELSE d[name]]

ListedBefore(name, n) == \E j \in 1..(n - 1) : files[j] = name

AbortedState ==
    (command = "rename" /\ pc = "aborted") =>
        /\ ~ignore_errors
        /\ idx \in 1..Len(files)
        /\ TemplateFails(files[idx])
        /\ ~printed.done
        /\ ~ENABLED Next
        /\ \A k \in 1..Len(calls) : calls[k].done /\ ListedBefore(calls[k].src, idx)
        /\ \A j \in idx..Len(files) :
              /\ files[j] \in DOMAIN disk
              /\ \A k \in 1..Len(calls) : calls[k].src # files[j]
        /\ disk = Replay(Len(calls))
        /\ ~dry_run =>
              /\ Len(calls) = Len(rename_table)
              /\ \A k \in 1..Len(calls) :
                    /\ calls[k].src = rename_table[k].old
                    /\ calls[k].dst = rename_table[k].new

AbortStep ==
    (command = "rename" /\ ~ignore_errors /\ pc = "loop" /\ idx <= Len(files)
       /\ TemplateFails(files[idx]))
    => (pc' = "aborted" /\ UNCHANGED <<disk, calls, printed, rename_table, idx>>)

\* C3: with ignore-errors unset the first template error ends the `rename`
\* run at once: the step that meets it renames nothing and the run stops
\* there; the renames made for the files before it stand, rename was never
\* invoked for the failing file or any file after it, and no table is
\* printed.
C3_TemplateErrorAborts == []AbortedState /\ [][AbortStep]_vars

\* a run aborted at its second file, after the first was renamed
C3_Witness ==
    /\ command = "rename"
    /\ pc = "aborted"
    /\ idx = 2
    /\ Len(files) = 3
    /\ Len(calls) = 1
    /\ FileName(1) \notin DOMAIN disk

Ended == pc \in {"done", "aborted", "crashed"}

\* C2: with ignore-errors set, a file whose tag normalisation or template
\* substitution fails is skipped, the run goes on to the end of the list,
\* and every other file is reported as if the failing file were not there.
\* Stated here for dry runs, where no rename can interfere.
C2_IgnoreErrorsSkipsFailingFile ==
    (command = "rename" /\ ignore_errors /\ dry_run /\ Ended) =>
        /\ pc = "done"
        /\ printed = [done |-> TRUE, rows |-> PairsUpTo(Len(files))]

HasKey(i, a, b) == a \in DOMAIN contents[i].tags \/ b \in DOMAIN contents[i].tags

HasBoth(i) == HasTags(i) /\ HasKey(i, "artist", "TPE1") /\ HasKey(i, "album", "TALB")

Lacking(i) == HasTags(i) /\ ~HasBoth(i)

Warned(i) == \E d \in diag : d.file = FileName(i)

Moved(i) == \E k \in 1..Len(calls) :
                calls[k].op = "move" /\ calls[k].src = FileName(i) /\ calls[k].done

Listed(i) == printed.done /\ \E k \in 1..Len(printed.rows) :
                                 printed.rows[k].old = FileName(i)

\* C4: in `add`, a file lacking both artist and TPE1, or both album and
\* TALB, is skipped with a warning and never moved, and does not end the
\* run: every other file that has tags with an artist and an album
\* alternative is still moved (listed, in a dry run).  Stated for runs that
\* have passed such a file.
C4_MissingFieldIsSkipped ==
    (command = "add" /\ Ended /\ \E i \in 1..Len(files) : Lacking(i) /\ Warned(i)) =>
        \A i \in 1..Len(files) :
            /\ Lacking(i) => Warned(i) /\ ~Moved(i) /\ ~Listed(i)
            /\ HasBoth(i) => IF dry_run THEN Listed(i) ELSE Moved(i)

\* the artist (album) of the i-th file: the first value under the first
\* key, or under the second when the first is absent
Chosen(i, a, b) ==
    FirstValue(IF a \in DOMAIN contents[i].tags
               THEN contents[i].tags[a]
               ELSE contents[i].tags[b]).v

Segments(ss) == SelectSeq(ss, LAMBDA x : x # <<>>)

ExpectedDirectory(i) ==
    target_directory \o Segments(<<sanitize(Chosen(i, "artist", "TPE1")),
                                   sanitize(Chosen(i, "album", "TALB"))>>)

\* C8: the directory `add` records for a tagged file with an artist and an
\* album alternative is targetRoot/sanitize(A)/sanitize(B), A the first
\* value of artist, or of TPE1 when artist is absent, B likewise of album
\* and TALB; recording it changes nothing on the filesystem.
C8_RecordedDirectory ==
    command = "add" =>
        /\ \A k \in 1..Len(movement_table) :
              \E i \in 1..Len(files) :
                  /\ movement_table[k].old = FileName(i)
                  /\ HasBoth(i)
                  /\ movement_table[k].new = ExpectedDirectory(i)
        /\ pc = "loop" =>
              /\ calls = <<>> /\ made = {} /\ library = library0
              /\ \A i \in 1..(idx - 1) :
                    HasBoth(i) => \E k \in 1..Len(movement_table) :
                                      movement_table[k].old = FileName(i)

\* C9: within one run no file content is the subject of two rename (or
\* move) invocations, and no file is removed from the directory by another
\* file's rename.
C9_EachFileRenamedAtMostOnce ==
    /\ \A k1, k2 \in 1..Len(calls) :
          calls[k1].content = calls[k2].content => k1 = k2
    /\ command = "rename" => \A i \in 1..Len(files) : i \in Range(disk)

====
